---- MODULE Spec2Model ----
(***************************************************************************)
(* Skygram client (src/src/App.tsx): the React state of App, the           *)
(* asynchronous runs of processCloudImage (file read, four stage timers,   *)
(* POST /process-cloud, body parse) and the user's handlers.               *)
(*                                                                         *)
(* One action is one synchronous block of JavaScript: React commits the    *)
(* state writes of a block together, so no state in between is rendered.   *)
(* A handler bound to an element is enabled only while that element is     *)
(* rendered.                                                               *)
(***************************************************************************)
EXTENDS Integers, Sequences, FiniteSets, TLC

VARIABLES
  uploadedImage,  \* useState<string | null>      (App.tsx:57)
  isProcessing,   \* useState(false)              (App.tsx:58)
  currentStage,   \* useState(0)                  (App.tsx:59)
  result,         \* useState<ProcessingResult | null> (App.tsx:60)
  isDragging,     \* useState(false)              (App.tsx:61)
  error,          \* useState<string | null>      (App.tsx:62)
  run,            \* the processCloudImage runs, one per accepted file
  nruns,          \* number of files accepted so far (FileReaders created)
  sessions,       \* number of sessions the server has created
  lastUpload,     \* the file given to handleFileUpload by the last step, if any
  lastDownload    \* the link handleDownload clicked in the last step, if any

vars == <<uploadedImage, isProcessing, currentStage, result, isDragging,
          error, run, nruns, sessions, lastUpload, lastDownload>>

(***************************************************************************)
(* Bounds of the model.                                                    *)
(***************************************************************************)
\* Files accepted by handleFileUpload in one behaviour.
MaxRuns == 2

(***************************************************************************)
(* Values.  A nullable value is <<>> (null) or <<v>>.                      *)
(***************************************************************************)
Null == <<>>
Some(v) == <<v>>
Val(x) == x[1]

\* JavaScript truthiness of a string | null: null and '' are falsy.
TruthyString(x) == x # Null /\ Val(x) # ""
\* JavaScript truthiness of an object | null.
TruthyObject(x) == x # Null

\* String.prototype.startsWith
StartsWith(s, prefix) ==
  /\ Len(s) >= Len(prefix)
  /\ SubSeq(s, 1, Len(prefix)) = prefix

\* String.prototype.substring(from) with 0 <= from (indices are 0-based)
Substring(s, from) ==
  IF from >= Len(s) THEN "" ELSE SubSeq(s, from + 1, Len(s))

API_BASE_URL == "http://localhost:8000"

\* ids of the four processingStages, in order
processingStages == <<"upload", "outline", "classify", "generate">>

funnyCaptions == <<"Nature's got jokes!",
                   "When clouds have better imagination than humans",
                   "Sky doodles by Mother Nature">>

\* the objects the fallback picks from
mockObjects == <<"dragon", "dog", "castle">>

(***************************************************************************)
(* Inputs: the files a user can drop or choose.                            *)
(***************************************************************************)
File(name, type, bytes) == [name |-> name, type |-> type, bytes |-> bytes]

ImagePng  == File("cloud1.png", "image/png", "iVBOR")
ImageJpeg == File("cloud2.jpg", "image/jpeg", "_9j_4")
TextFile  == File("notes.txt", "text/plain", "aGVsbG8")
Untyped   == File("blob", "", "AAAA")

Files == {ImagePng, ImageJpeg, TextFile, Untyped}

\* e.dataTransfer.files / e.target.files: empty, one file, or several
FileLists == {<<>>} \cup {<<f>> : f \in Files} \cup {<<TextFile, ImagePng>>}

\* FileReader.readAsDataURL: the data URL of the file's content
DataURL(f) == "data:" \o f.type \o ";base64," \o f.bytes

(***************************************************************************)
(* Math.random and the fallback record (App.tsx:97-104).                   *)
(* A draw q stands for the number q/4; the draws taken are 0 and 0.5.      *)
(***************************************************************************)
RandomDraws == {0, 2}

Base36Digits == "0123456789abcdefghijklmnopqrstuvwxyz"

\* Number.prototype.toString(36) of q/4: the fraction q/4 is the single
\* base-36 digit 9q.
ToString36(q) ==
  IF q = 0 THEN "0"
  ELSE "0." \o SubSeq(Base36Digits, 9 * q + 1, 9 * q + 1)

\* Math.floor(Math.random() * n) for the draw q
RandomIndex(q, n) == (q * n) \div 4

\* the prefix left out
MockSessionId_noPrefix(q) == Substring(ToString36(q), 2)

\* 'mock-' + Math.random().toString(36).substring(2)
MockSessionId(q) == "mock-" \o Substring(ToString36(q), 2)

ProcessingResult(sid, obj, cap, orig, gen, dl) ==
  [session_id |-> sid, detected_object |-> obj, caption |-> cap,
   original_image_url |-> orig, generated_image_url |-> gen,
   download_url |-> dl]

\* the record of the catch block, for the three draws of Math.random
MockResult(q1, q2, q3) ==
  ProcessingResult(MockSessionId(q1),
                   mockObjects[RandomIndex(q2, 3) + 1],
                   funnyCaptions[RandomIndex(q3, Len(funnyCaptions)) + 1],
                   "/mock/original.jpg",
                   "/mock/generated.jpg",
                   "/mock/download.jpg")

(***************************************************************************)
(* The server, as sections 6 and 8 of spec.md describe it: each            *)
(* upload it accepts creates a session with a fresh non-empty id, and the  *)
(* body of an ok response is the six-field record of that session.         *)
(***************************************************************************)
ServerSessionId(n) == "sess-" \o ToString(n)

ServerRecord(n) ==
  ProcessingResult(ServerSessionId(n),
                   "dragon",
                   funnyCaptions[((n - 1) % Len(funnyCaptions)) + 1],
                   "/images/original/" \o ServerSessionId(n),
                   "/images/generated/" \o ServerSessionId(n) \o ".png",
                   "/download/" \o ServerSessionId(n) \o ".png")

\* the status codes the server answers with
StatusCodes == {200, 500}

\* Response.ok
ResponseOk(status) == status >= 200 /\ status <= 299

(***************************************************************************)
(* What the try block can throw (App.tsx:70-92).                           *)
(***************************************************************************)
JsError(message) == [isError |-> TRUE, message |-> message]

\* fetch rejects with a TypeError when the network call fails
FetchRejection == JsError("Failed to fetch")
\* App.tsx:86
StatusError(status) == JsError("Server responded with " \o ToString(status))
\* response.json() rejects with a SyntaxError when the body is no JSON
JsonRejection == JsError("Unexpected token < in JSON at position 0")

\* err instanceof Error ? err.message : 'Processing failed'   (App.tsx:94)
ErrorMessage(err) == IF err.isError THEN err.message ELSE "Processing failed"

(***************************************************************************)
(* The runs of processCloudImage.  run[r] is the r-th accepted file:       *)
(*   pc      "unused", "reading" (FileReader at work), "delay" (a stage    *)
(*           timer pending), "fetch" (request in flight), "json" (body     *)
(*           being parsed), "done"                                         *)
(*   i       the loop variable of App.tsx:72                               *)
(*   stages  the values the run has committed to currentStage, one per     *)
(*           synchronous block that wrote it                               *)
(*   delays  the stage timers of the run that have elapsed                 *)
(*   posts   the POST /process-cloud requests the run has issued           *)
(*   session the server session of the ok response being parsed (0: none)  *)
(*   outcome "none", "server" (setResult(data)) or "fallback"              *)
(*   sid     the session_id of the record the run ended with               *)
(***************************************************************************)
Runs == 1..MaxRuns

NoRun == [pc |-> "unused", file |-> Null, i |-> 0, stages |-> <<>>,
          delays |-> 0, posts |-> 0, session |-> 0, outcome |-> "none",
          sid |-> ""]

Init ==
  /\ uploadedImage = Null
  /\ isProcessing = FALSE
  /\ currentStage = 0
  /\ result = Null
  /\ isDragging = FALSE
  /\ error = Null
  /\ run = [r \in Runs |-> NoRun]
  /\ nruns = 0
  /\ sessions = 0
  /\ lastUpload = Null
  /\ lastDownload = Null

(***************************************************************************)
(* What is rendered (App.tsx:188, 203, 276-291, 297, 336-348).             *)
(***************************************************************************)
ErrorBannerRendered == TruthyString(error)

UploadAreaRendered ==
  ~TruthyString(uploadedImage) /\ ~isProcessing /\ ~TruthyObject(result)

StagesRendered == isProcessing

PreviewResetRendered ==
  TruthyString(uploadedImage) /\ ~isProcessing /\ ~TruthyObject(result)

ResultsRendered == TruthyObject(result)

\* 'Try Another Cloud' left out
ResetRendered_previewOnly == PreviewResetRendered

\* resetApp is bound to the X of the preview and to 'Try Another Cloud'
ResetRendered == PreviewResetRendered \/ ResultsRendered

(***************************************************************************)
(* processCloudImage (App.tsx:65-108)                                      *)
(***************************************************************************)
\* the loop test off by one
LoopContinues_offByOne(i) == i <= Len(processingStages)

\* the loop test of App.tsx:72
LoopContinues(i) == i < Len(processingStages)

\* the value a block commits to currentStage, given its writes in order
Committed(written) ==
  IF written = <<>> THEN currentStage ELSE written[Len(written)]

Logged(log, written) ==
  IF written = <<>> THEN log ELSE Append(log, written[Len(written)])

\* App.tsx:72-83 with the loop variable at i, in a block that has already
\* written `written` to currentStage and brought the run's record to `rec`:
\* either one more stage and its timer, or the request.
StageLoop(r, rec, i, written) ==
  IF LoopContinues(i)
  THEN /\ currentStage' = Committed(Append(written, i))
       /\ run' = [run EXCEPT ![r] =
                    [rec EXCEPT !.pc = "delay", !.i = i,
                                !.stages = Logged(@, Append(written, i))]]
  ELSE /\ currentStage' = Committed(written)
       /\ run' = [run EXCEPT ![r] =
                    [rec EXCEPT !.pc = "fetch", !.i = i,
                                !.stages = Logged(@, written),
                                !.posts = @ + 1]]

\* reader.onload (App.tsx:117-120) and the first block of processCloudImage
\* (App.tsx:66-74)
ReaderOnload(r) ==
  /\ run[r].pc = "reading"
  /\ uploadedImage' = Some(DataURL(Val(run[r].file)))
  /\ isProcessing' = TRUE
  /\ error' = Null
  /\ StageLoop(r, run[r], 0, <<0>>)
  /\ lastUpload' = Null /\ lastDownload' = Null
  /\ UNCHANGED <<result, isDragging, nruns, sessions>>

\* a stage timer fires (App.tsx:74): i++, then the loop test
TimerFires(r) ==
  /\ run[r].pc = "delay"
  /\ StageLoop(r, [run[r] EXCEPT !.delays = @ + 1], run[r].i + 1, <<>>)
  /\ lastUpload' = Null /\ lastDownload' = Null
  /\ UNCHANGED <<uploadedImage, isProcessing, result, isDragging, error,
                 nruns, sessions>>

\* the catch block without the finally block
Catch_noFinally(r, err) ==
  \E q1, q2, q3 \in RandomDraws :
    /\ error' = Some(ErrorMessage(err))
    /\ result' = Some(MockResult(q1, q2, q3))
    /\ UNCHANGED isProcessing
    /\ run' = [run EXCEPT ![r] =
                 [@ EXCEPT !.pc = "done", !.outcome = "fallback",
                           !.session = 0,
                           !.sid = MockResult(q1, q2, q3).session_id]]

\* the catch block issuing the request once more before it falls back
Catch_retry(r, err) ==
  IF run[r].posts < 2
  THEN /\ run' = [run EXCEPT ![r] =
                    [@ EXCEPT !.pc = "fetch", !.posts = @ + 1]]
       /\ UNCHANGED <<error, result, isProcessing>>
  ELSE \E q1, q2, q3 \in RandomDraws :
         /\ error' = Some(ErrorMessage(err))
         /\ result' = Some(MockResult(q1, q2, q3))
         /\ isProcessing' = FALSE
         /\ run' = [run EXCEPT ![r] =
                      [@ EXCEPT !.pc = "done", !.outcome = "fallback",
                                !.session = 0,
                                !.sid = MockResult(q1, q2, q3).session_id]]

\* the catch block and finally (App.tsx:92-107)
Catch(r, err) ==
  \E q1, q2, q3 \in RandomDraws :
    /\ error' = Some(ErrorMessage(err))
    /\ result' = Some(MockResult(q1, q2, q3))
    /\ isProcessing' = FALSE
    /\ run' = [run EXCEPT ![r] =
                 [@ EXCEPT !.pc = "done", !.outcome = "fallback",
                           !.session = 0,
                           !.sid = MockResult(q1, q2, q3).session_id]]

\* fetch rejects: the request did not get an answer
FetchRejects(r) ==
  /\ run[r].pc = "fetch"
  /\ Catch(r, FetchRejection)
  /\ lastUpload' = Null /\ lastDownload' = Null
  /\ UNCHANGED <<uploadedImage, currentStage, isDragging, nruns, sessions>>

\* fetch resolves with a response (App.tsx:80-89).  An ok response comes
\* from a session the server has created for this upload.
FetchResponds(r, status) ==
  /\ run[r].pc = "fetch"
  /\ IF ResponseOk(status)
     THEN /\ sessions' = sessions + 1
          /\ run' = [run EXCEPT ![r] =
                       [@ EXCEPT !.pc = "json", !.session = sessions + 1]]
          /\ UNCHANGED <<error, result, isProcessing>>
     ELSE /\ Catch(r, StatusError(status))
          /\ UNCHANGED sessions
  /\ lastUpload' = Null /\ lastDownload' = Null
  /\ UNCHANGED <<uploadedImage, currentStage, isDragging, nruns>>

\* response.json() resolves: setResult(data), then finally (App.tsx:89-90,
\* 105-107)
JsonResolves(r) ==
  /\ run[r].pc = "json"
  /\ result' = Some(ServerRecord(run[r].session))
  /\ isProcessing' = FALSE
  /\ run' = [run EXCEPT ![r] =
               [@ EXCEPT !.pc = "done", !.outcome = "server",
                         !.session = 0,
                         !.sid = ServerRecord(run[r].session).session_id]]
  /\ lastUpload' = Null /\ lastDownload' = Null
  /\ UNCHANGED <<uploadedImage, currentStage, isDragging, error, nruns,
                 sessions>>

\* response.json() rejects: the body of the ok response is no JSON
JsonRejects(r) ==
  /\ run[r].pc = "json"
  /\ Catch(r, JsonRejection)
  /\ lastUpload' = Null /\ lastDownload' = Null
  /\ UNCHANGED <<uploadedImage, currentStage, isDragging, nruns, sessions>>

(***************************************************************************)
(* The handlers (App.tsx:110-172, 193)                                     *)
(***************************************************************************)
\* the test with an empty prefix
IsImageFile_emptyPrefix(f) == StartsWith(f.type, "")

\* the test of App.tsx:111, negated
IsImageFile(f) == StartsWith(f.type, "image/")

\* handleFileUpload (App.tsx:110-122); isDragging is the caller's to set.
\* An image file is accepted while fewer than MaxRuns have been.
handleFileUpload(f) ==
  /\ lastUpload' = Some(f)
  /\ lastDownload' = Null
  /\ IF ~IsImageFile(f)
     THEN /\ error' = Some("Please upload an image file")
          /\ UNCHANGED <<run, nruns>>
     ELSE /\ nruns < MaxRuns
          /\ nruns' = nruns + 1
          /\ run' = [run EXCEPT ![nruns + 1] =
                       [@ EXCEPT !.pc = "reading", !.file = Some(f)]]
          /\ UNCHANGED error
  /\ UNCHANGED <<uploadedImage, isProcessing, currentStage, result,
                 sessions>>

\* handleDrop (App.tsx:124-132)
handleDrop(files) ==
  /\ UploadAreaRendered
  /\ isDragging' = FALSE
  /\ IF Len(files) > 0
     THEN handleFileUpload(files[1])
     ELSE /\ lastUpload' = Null /\ lastDownload' = Null
          /\ UNCHANGED <<uploadedImage, isProcessing, currentStage, result,
                         error, run, nruns, sessions>>

\* handleDragOver (App.tsx:134-137)
handleDragOver ==
  /\ UploadAreaRendered
  /\ isDragging' = TRUE
  /\ lastUpload' = Null /\ lastDownload' = Null
  /\ UNCHANGED <<uploadedImage, isProcessing, currentStage, result, error,
                 run, nruns, sessions>>

\* handleDragLeave (App.tsx:139-142)
handleDragLeave ==
  /\ UploadAreaRendered
  /\ isDragging' = FALSE
  /\ lastUpload' = Null /\ lastDownload' = Null
  /\ UNCHANGED <<uploadedImage, isProcessing, currentStage, result, error,
                 run, nruns, sessions>>

\* handleFileInput (App.tsx:144-149)
handleFileInput(files) ==
  /\ UploadAreaRendered
  /\ IF Len(files) > 0
     THEN handleFileUpload(files[1])
     ELSE /\ lastUpload' = Null /\ lastDownload' = Null
          /\ UNCHANGED <<uploadedImage, isProcessing, currentStage, result,
                         error, run, nruns, sessions>>
  /\ UNCHANGED isDragging

\* the link handleDownload builds and clicks (App.tsx:152-158), if any
DownloadLink(res) ==
  IF res # Null /\ Val(res).download_url # ""
  THEN Some([href |-> API_BASE_URL \o Val(res).download_url,
             download |-> "cloud-art-" \o Val(res).session_id \o ".png"])
  ELSE Null

\* handleDownload (App.tsx:151-161), bound to 'Download Art'
handleDownload ==
  /\ ResultsRendered
  /\ lastDownload' = DownloadLink(result)
  /\ lastUpload' = Null
  /\ UNCHANGED <<uploadedImage, isProcessing, currentStage, result,
                 isDragging, error, run, nruns, sessions>>

\* the six state values of App (App.tsx:57-62)
AppState ==
  [uploadedImage |-> uploadedImage, isProcessing |-> isProcessing,
   currentStage |-> currentStage, result |-> result,
   isDragging |-> isDragging, error |-> error]

\* the setters without setCurrentStage(0)
ResetState_keepStage(s) ==
  [s EXCEPT !.uploadedImage = Null, !.isProcessing = FALSE,
            !.result = Null, !.error = Null]

\* the five setters of resetApp (App.tsx:164-168) applied to the state s
ResetState(s) ==
  [s EXCEPT !.uploadedImage = Null, !.isProcessing = FALSE,
            !.currentStage = 0, !.result = Null, !.error = Null]

\* resetApp (App.tsx:163-172); the value of the file input is no state of
\* the model
resetApp ==
  /\ ResetRendered
  /\ uploadedImage' = ResetState(AppState).uploadedImage
  /\ isProcessing' = ResetState(AppState).isProcessing
  /\ currentStage' = ResetState(AppState).currentStage
  /\ result' = ResetState(AppState).result
  /\ isDragging' = ResetState(AppState).isDragging
  /\ error' = ResetState(AppState).error
  /\ lastUpload' = Null /\ lastDownload' = Null
  /\ UNCHANGED <<run, nruns, sessions>>

\* the X of the error banner (App.tsx:193)
DismissError ==
  /\ ErrorBannerRendered
  /\ error' = Null
  /\ lastUpload' = Null /\ lastDownload' = Null
  /\ UNCHANGED <<uploadedImage, isProcessing, currentStage, result,
                 isDragging, run, nruns, sessions>>

Next ==
  \/ \E files \in FileLists : handleDrop(files)
  \/ \E files \in FileLists : handleFileInput(files)
  \/ handleDragOver
  \/ handleDragLeave
  \/ \E r \in Runs : ReaderOnload(r)
  \/ \E r \in Runs : TimerFires(r)
  \/ \E r \in Runs : FetchRejects(r)
  \/ \E r \in Runs, status \in StatusCodes : FetchResponds(r, status)
  \/ \E r \in Runs : JsonResolves(r)
  \/ \E r \in Runs : JsonRejects(r)
  \/ handleDownload
  \/ resetApp
  \/ DismissError

Spec == Init /\ [][Next]_vars

\* Timers fire, and a request or a body parse in flight settles one way or
\* the other.
FetchSettles(r) ==
  FetchRejects(r) \/ \E status \in StatusCodes : FetchResponds(r, status)

JsonSettles(r) == JsonResolves(r) \/ JsonRejects(r)

FairSpec ==
  /\ Spec
  /\ \A r \in Runs : WF_vars(TimerFires(r))
  /\ \A r \in Runs : WF_vars(FetchSettles(r))
  /\ \A r \in Runs : WF_vars(JsonSettles(r))

(***************************************************************************)
(* Properties                                                              *)
(***************************************************************************)
\* the step is one of run r
StepOf(r) == run'[r] # run[r]

\* run r ends in this step
Ends(r) == run[r].pc # "done" /\ run'[r].pc = "done"

\* the first n stage indices, in order
FirstStages(n) == [k \in 1..n |-> k - 1]

\* C1: within one run currentStage takes 0, 1, 2, 3 in that order, each once
\* and each followed by one delay; the request is issued only after the
\* delay of stage 3; after the request the run does not change currentStage.
C1_StagesThenRequest ==
  /\ [](\A r \in Runs :
          /\ run[r].pc = "delay" =>
               /\ run[r].posts = 0
               /\ run[r].stages = FirstStages(run[r].i + 1)
               /\ run[r].delays = run[r].i
               /\ run[r].i <= 3
          /\ run[r].posts > 0 =>
               /\ run[r].stages = <<0, 1, 2, 3>>
               /\ run[r].delays = 4)
  /\ [][\A r \in Runs :
          /\ StepOf(r) /\ run[r].pc = "delay" /\ run'[r].pc = "delay" =>
               currentStage' = run[r].i + 1
          /\ StepOf(r) /\ run[r].posts > 0 => currentStage' = currentStage]_vars

C1_Witness ==
  \E r \in Runs : run[r].pc = "fetch" /\ run[r].posts = 1 /\ currentStage = 3

\* the six fields of a record the fallback fabricates
IsFabricated(rec) ==
  /\ StartsWith(rec.session_id, "mock-")
  /\ rec.detected_object \in {"dragon", "dog", "castle"}
  /\ \E k \in 1..Len(funnyCaptions) : rec.caption = funnyCaptions[k]
  /\ rec.original_image_url = "/mock/original.jpg"
  /\ rec.generated_image_url = "/mock/generated.jpg"
  /\ rec.download_url = "/mock/download.jpg"
  /\ \A field \in DOMAIN rec : rec[field] # ""

\* C2: a run whose network call fails (fetch rejects, status not ok, body
\* not parsable) ends with result set to a fabricated record: six non-empty
\* fields, session_id 'mock-...', one of the three objects, one of the three
\* captions, the fixed /mock/ paths.
C2_FailedRunFabricates ==
  [][\A r \in Runs :
       /\ StepOf(r) /\ run[r].pc = "fetch" /\ run'[r].pc # "json" =>
            Ends(r) /\ run'[r].outcome = "fallback"
       /\ Ends(r) /\ run'[r].outcome = "fallback" =>
            /\ result' # Null
            /\ IsFabricated(Val(result'))
            /\ run'[r].sid = Val(result').session_id]_vars

C2_Witness ==
  \E r \in Runs :
    /\ run[r].pc = "done" /\ run[r].outcome = "fallback"
    /\ error = Some(ErrorMessage(JsonRejection))
    /\ result # Null /\ Val(result).session_id = "mock-"
    /\ Val(result).detected_object = "dog"

\* the messages the catch block can put in error
FailureMessages ==
  {ErrorMessage(FetchRejection), ErrorMessage(JsonRejection)}
    \cup {ErrorMessage(StatusError(status)) : status \in StatusCodes}

\* C3: after a failed call the failure message is never held in error (and
\* so rendered in the banner) while the fabricated result is displayed.
C3_NoRawFailureShown ==
  ~ /\ ErrorBannerRendered
    /\ Val(error) \in FailureMessages
    /\ ResultsRendered
    /\ IsFabricated(Val(result))

\* C4: the stage indicators and the result panel are never rendered
\* together: never isProcessing with result non-null.
C4_ProcessingExcludesResult == ~(StagesRendered /\ ResultsRendered)

\* C5: handleFileUpload of a file whose type does not start with 'image/'
\* sets error to 'Please upload an image file' and nothing else: no reader,
\* no run, no request; uploadedImage, isProcessing, currentStage and result
\* keep their values.
C5_NonImageOnlySetsError ==
  [][(lastUpload' # Null /\ ~StartsWith(Val(lastUpload').type, "image/")) =>
       /\ error' = Some("Please upload an image file")
       /\ UNCHANGED <<uploadedImage, isProcessing, currentStage, result,
                      run, nruns, sessions>>
       /\ lastDownload' = Null]_vars

C5_Witness ==
  /\ lastUpload = Some(TextFile)
  /\ error = Some("Please upload an image file")
  /\ \E r \in Runs : run[r].pc = "reading"

\* C6: every run that starts ends, with isProcessing false and result
\* non-null at its end, and isProcessing does not stay true forever.
C6_RunReachesResult ==
  /\ \A r \in Runs : (run[r].pc = "delay") ~> (run[r].pc = "done")
  /\ [][\A r \in Runs : Ends(r) => ~isProcessing' /\ result' # Null]_vars
  /\ isProcessing ~> ~isProcessing

C6_Witness ==
  /\ \A r \in Runs : run[r].pc = "done"
  /\ ~isProcessing /\ result # Null

\* C7: a download that handleDownload triggers asks for
\* API_BASE_URL/download/{filename}, for a server record and for a
\* fabricated one.
C7_DownloadViaEndpoint ==
  lastDownload # Null =>
    /\ StartsWith(Val(lastDownload).href, API_BASE_URL \o "/download/")
    /\ Len(Val(lastDownload).href) > Len(API_BASE_URL \o "/download/")

\* C8: every record a run ends with has a non-empty session_id, and no two
\* runs end with the same session_id.
C8_SessionIdsUnique ==
  /\ result # Null => Val(result).session_id # ""
  /\ \A r \in Runs : run[r].pc = "done" => run[r].sid # ""
  /\ \A r1, r2 \in Runs :
       r1 # r2 /\ run[r1].pc = "done" /\ run[r2].pc = "done" =>
         run[r1].sid # run[r2].sid

\* C9: a run whose request gets an ok response with a parsable body ends
\* with result equal to the server's record and with error null.
C9_ServerRecordKept ==
  [][\A r \in Runs :
       Ends(r) /\ run'[r].outcome = "server" =>
         /\ result' = Some(ServerRecord(run[r].session))
         /\ error' = Null]_vars

\* C10: a run issues exactly one POST /process-cloud: a failed request is
\* not retried, the run goes straight to the fallback.
C10_OneRequestPerRun ==
  /\ [](\A r \in Runs :
          /\ run[r].posts <= 1
          /\ run[r].pc \in {"fetch", "json", "done"} => run[r].posts = 1
          /\ run[r].pc \in {"unused", "reading", "delay"} => run[r].posts = 0)
  /\ [][\A r \in Runs :
          StepOf(r) /\ run[r].pc \in {"fetch", "json"} =>
            /\ run'[r].posts = run[r].posts
            /\ run'[r].pc \in {"json", "done"}
            /\ run[r].pc = "json" => run'[r].pc = "done"]_vars

C10_Witness ==
  \E r \in Runs :
    run[r].pc = "done" /\ run[r].outcome = "fallback" /\ run[r].posts = 1

\* the values Init gives the five variables resetApp writes
InitialFive(s) ==
  /\ s.uploadedImage = Null
  /\ s.isProcessing = FALSE
  /\ s.currentStage = 0
  /\ s.result = Null
  /\ s.error = Null

\* C11: from any state resetApp gives uploadedImage null, isProcessing
\* false, currentStage 0, result null and error null, the initial values of
\* the five; isDragging keeps its value; a second resetApp changes nothing.
C11_ResetToInitial ==
  /\ [](/\ InitialFive(ResetState(AppState))
        /\ ResetState(AppState).isDragging = isDragging
        /\ ResetState(ResetState(AppState)) = ResetState(AppState))
  /\ [][result # Null /\ result' = Null =>
          /\ InitialFive(AppState')
          /\ isDragging' = isDragging
          /\ ResetState(AppState') = AppState']_vars

\* resetApp has acted (only it clears result) on a state in which
\* isDragging was true and a run was still in flight
C11_Witness ==
  /\ InitialFive(AppState)
  /\ isDragging
  /\ \E r \in Runs : run[r].pc = "done"
  /\ \E r \in Runs : run[r].pc = "fetch" /\ run[r].i = 4

\* the file of run r is being read
Reading(r) == run[r].pc = "reading"

\* processCloudImage has been called for run r and has not returned
Started(r) == run[r].pc \in {"delay", "fetch", "json"}

InFlight(r) == Reading(r) \/ Started(r)

\* C12: at most one run is in flight at any time: after a file has been
\* accepted no second one is accepted before the first file's run has ended,
\* the time its FileReader is at work included.
C12_AtMostOneRunInFlight ==
  Cardinality({r \in Runs : InFlight(r)}) <= 1

\* C13: the result shown belongs to the image shown: whenever result is
\* non-null, uploadedImage is non-null and result is the record of a run
\* started for the file whose data URL uploadedImage holds.
C13_ResultBelongsToImage ==
  result # Null =>
    /\ uploadedImage # Null
    /\ \E r \in Runs :
         /\ run[r].pc = "done"
         /\ run[r].sid = Val(result).session_id
         /\ Some(DataURL(Val(run[r].file))) = uploadedImage

\* C14: after resetApp the app stays Idle until a new file is accepted: no
\* run started before the reset writes state after it.  In a state with the
\* upload area rendered uploadedImage is null, so every started run was
\* started before the last resetApp; its steps must leave result null,
\* isProcessing false, currentStage 0 and error as it is.
C14_IdleAfterReset ==
  [][\A r \in Runs :
       UploadAreaRendered /\ currentStage = 0 /\ Started(r) /\ StepOf(r) =>
         /\ result' = Null
         /\ isProcessing' = FALSE
         /\ currentStage' = 0
         /\ error' = error]_vars

\* a step of resetApp: nothing else clears uploadedImage or result
ResetStep ==
  \/ uploadedImage # Null /\ uploadedImage' = Null
  \/ result # Null /\ result' = Null

\* C15: the UI has no dead end: in every state the upload area is rendered,
\* or a run is in flight that will end, or a control bound to resetApp is
\* rendered; a run in flight ends with such a control rendered, and resetApp
\* brings the upload area back.
C15_NoDeadEnd ==
  /\ [](\/ UploadAreaRendered
        \/ ResetRendered
        \/ \E r \in Runs : Started(r))
  /\ (~UploadAreaRendered /\ ~ResetRendered) ~>
       (UploadAreaRendered \/ ResetRendered)
  /\ [][ResetStep => UploadAreaRendered']_vars

\* neither the upload area nor a reset control is rendered: the stage
\* indicators are, and the run behind them is still in flight
C15_Witness ==
  /\ ~UploadAreaRendered /\ ~ResetRendered
  /\ StagesRendered
  /\ \E r \in Runs : run[r].pc = "json"

====
